---- MODULE Spec2Model ----
(***************************************************************************)
(* Model of the reporting pipeline of gh_analyzer/analyse_gh_data.py:      *)
(* the two JSON snapshots are reduced (get_reduced_org_alerts,             *)
(* get_reduced_repo_data) and the six report tables are derived from the   *)
(* reduced collections in the order main() calls the aggregators.          *)
(* The snapshots come from gh_analyzer/get_gh_data.py, whose                *)
(* request_pagination is modelled as a process of its own.                 *)
(*                                                                         *)
(* Python values are modelled as follows.                                  *)
(*   dict        a sequence of <<key, value>> pairs with distinct keys, in *)
(*               insertion order (the iteration order of a Python dict)    *)
(*   list        a sequence                                                *)
(*   JSON object a record; "k in obj" is  k \in DOMAIN obj                 *)
(*   timestamp   the string "%Y-%m-%dT%H:%M:%SZ" is the record             *)
(*               [day, hour]; strptime turns it into a datetime, counted   *)
(*               in hours                                                  *)
(*   a / b       (true division) the fraction in lowest terms             *)
(***************************************************************************)
EXTENDS Integers, Sequences, FiniteSets, TLC

VARIABLES
    pc,                  \* position of main()
    gh_org_alerts,       \* content of gh_org_dep_alerts.json (list of raw alerts)
    gh_repo_data,        \* content of gh_repo_data.json (dict of raw repositories)
    redu_org_alert,      \* main: result of get_reduced_org_alerts()
    redu_repo_data,      \* main: result of get_reduced_repo_data()
    overview,            \* sheet "Overview"
    repo_overview,       \* sheet "ARepos"
    repo_short_overview, \* sheet "AReposShort"
    alerts_vs_org,       \* sheet "CompareOrgVsRepo"
    languages_overview,  \* sheet "Languages"
    languages_summary,   \* sheet "LanguageSummary"
    utcnow,              \* the system clock: utcnow[k] is what the k-th call of
                         \* datetime.utcnow() returns
    fetch_pc,            \* position of request_pagination()
    url,                 \* request_pagination: url
    results,             \* request_pagination: results
    response,            \* request_pagination: response
    num_requests,        \* number of calls of requests.get so far
    server               \* the API: the pages it serves and the request it refuses

vars == <<pc, gh_org_alerts, gh_repo_data, redu_org_alert, redu_repo_data, overview,
          repo_overview, repo_short_overview, alerts_vs_org, languages_overview,
          languages_summary, utcnow, fetch_pc, url, results, response, num_requests,
          server>>

\* the variables of main() and those of request_pagination()
report == <<pc, gh_org_alerts, gh_repo_data, redu_org_alert, redu_repo_data, overview,
            repo_overview, repo_short_overview, alerts_vs_org, languages_overview,
            languages_summary, utcnow>>

fetch == <<fetch_pc, url, results, response, num_requests, server>>

(***************************************************************************)
(* Bounds of the inputs.                                                   *)
(***************************************************************************)
MaxRepos == 2
MaxAlerts == 2
MaxFeed == 3
MaxDay == 1

HoursPerDay == 24

Hours == {0, 12}
States == {"open", "fixed", "dismissed", "auto_dismissed"}
Severities == {"critical", "high", "medium", "low", "unknown"}
Languages == {"Go", "Py"}

(***************************************************************************)
(* Python dict.                                                            *)
(***************************************************************************)
DictKeys(d) == [i \in 1..Len(d) |-> d[i][1]]

DictHas(d, k) == \E i \in 1..Len(d) : d[i][1] = k

DictGet(d, k) == d[CHOOSE i \in 1..Len(d) : d[i][1] = k][2]

DictSet(d, k, v) ==
    IF DictHas(d, k)
    THEN [i \in 1..Len(d) |-> IF d[i][1] = k THEN <<k, v>> ELSE d[i]]
    ELSE Append(d, <<k, v>>)

(***************************************************************************)
(* get_reduced_alert                                                       *)
(***************************************************************************)
\* obj[path[1]][path[2]]... succeeds: every key on the way is present
RECURSIVE HasPath(_, _)
HasPath(obj, path) ==
    \/ path = <<>>
    \/ /\ Head(path) \in DOMAIN obj
       /\ HasPath(obj[Head(path)], Tail(path))

\* the subscripts get_reduced_alert evaluates on the alert
RequiredPaths(alert) ==
    { <<"number">>, <<"state">>, <<"created_at">>, <<"updated_at">>,
      <<"dependency", "package", "name">>,
      <<"dependency", "package", "ecosystem">>,
      <<"dependency", "scope">>,
      <<"security_advisory", "ghsa_id">>,
      <<"security_vulnerability", "severity">> }
    \cup (IF "repository" \in DOMAIN alert
          THEN {<<"repository", "url">>} ELSE {<<"url">>})

\* a subscript of a missing key raises; nothing is returned
KeyError == [exception |-> "KeyError"]

Raised(result) == "exception" \in DOMAIN result

\* a variant that leaves out the fields it does not find
get_reduced_alert_lenient(alert) ==
    LET paths == [ number         |-> <<"number">>,
                   state          |-> <<"state">>,
                   created_at     |-> <<"created_at">>,
                   updated_at     |-> <<"updated_at">>,
                   package        |-> <<"dependency", "package", "name">>,
                   ecosystem      |-> <<"dependency", "package", "ecosystem">>,
                   scope          |-> <<"dependency", "scope">>,
                   ghsa_id        |-> <<"security_advisory", "ghsa_id">>,
                   severity       |-> <<"security_vulnerability", "severity">>,
                   repository_url |-> IF "repository" \in DOMAIN alert
                                      THEN <<"repository", "url">> ELSE <<"url">> ]
        found == {k \in DOMAIN paths : HasPath(alert, paths[k])}
    IN  [k \in found |->
            IF Len(paths[k]) = 1 THEN alert[paths[k][1]]
            ELSE IF Len(paths[k]) = 2 THEN alert[paths[k][1]][paths[k][2]]
            ELSE alert[paths[k][1]][paths[k][2]][paths[k][3]]]

get_reduced_alert(alert) ==
    IF \E path \in RequiredPaths(alert) : ~HasPath(alert, path)
    THEN KeyError
    ELSE
    [ number         |-> alert.number,
      state          |-> alert.state,
      created_at     |-> alert.created_at,
      updated_at     |-> alert.updated_at,
      package        |-> alert.dependency.package.name,
      ecosystem      |-> alert.dependency.package.ecosystem,
      scope          |-> alert.dependency.scope,
      ghsa_id        |-> alert.security_advisory.ghsa_id,
      severity       |-> alert.security_vulnerability.severity,
      repository_url |-> IF "repository" \in DOMAIN alert
                         THEN alert.repository.url
                         ELSE alert.url ]

\* a variant that stores the alert number as the repository name
WithFullName_number(alert_rec, repo_identifier) ==
    ("repository_full_name" :> alert_rec.number) @@ alert_rec

\* alert_rec["repository-full_name"] = repo_identifier
WithFullName(alert_rec, repo_identifier) ==
    ("repository_full_name" :> repo_identifier) @@ alert_rec

(***************************************************************************)
(* get_reduced_org_alerts                                                  *)
(***************************************************************************)
RECURSIVE ReduceOrgLoop(_, _, _)
ReduceOrgLoop(feed, i, reduced_org_alerts) ==
    IF i > Len(feed) THEN reduced_org_alerts
    ELSE LET alert           == feed[i]
             repo_identifier == alert.repository.full_name
             alert_rec       == WithFullName(get_reduced_alert(alert), repo_identifier)
             repo_container  == IF DictHas(reduced_org_alerts, repo_identifier)
                                THEN DictGet(reduced_org_alerts, repo_identifier)
                                ELSE <<>>
         IN  ReduceOrgLoop(feed, i + 1,
                 DictSet(reduced_org_alerts, repo_identifier,
                         Append(repo_container, alert_rec)))

\* a variant that keeps one alert per alert number in a group
RECURSIVE ReduceOrgLoop_dedup(_, _, _)
ReduceOrgLoop_dedup(feed, i, reduced_org_alerts) ==
    IF i > Len(feed) THEN reduced_org_alerts
    ELSE LET alert           == feed[i]
             repo_identifier == alert.repository.full_name
             alert_rec       == WithFullName(get_reduced_alert(alert), repo_identifier)
             repo_container  == IF DictHas(reduced_org_alerts, repo_identifier)
                                THEN DictGet(reduced_org_alerts, repo_identifier)
                                ELSE <<>>
         IN  ReduceOrgLoop_dedup(feed, i + 1,
                 DictSet(reduced_org_alerts, repo_identifier,
                         IF \E h \in 1..Len(repo_container) :
                                repo_container[h].number = alert_rec.number
                         THEN repo_container
                         ELSE Append(repo_container, alert_rec)))

get_reduced_org_alerts_dedup(feed) == ReduceOrgLoop_dedup(feed, 1, <<>>)

get_reduced_org_alerts(feed) == ReduceOrgLoop(feed, 1, <<>>)

\* the loop raises at the first alert without repository.full_name (line 68)
\* or that get_reduced_alert fails on; the local dict is lost
OrgAlertsRaise(feed) ==
    \E i \in 1..Len(feed) :
        \/ ~HasPath(feed[i], <<"repository", "full_name">>)
        \/ Raised(get_reduced_alert(feed[i]))

(***************************************************************************)
(* get_reduced_repo_data                                                   *)
(***************************************************************************)
\* a variant that reduces the alerts whether dependabot is enabled or not
ReduceRepo_always(repo_identifier, repo) ==
    [ full_name          |-> repo.full_name,
      archived           |-> repo.archived,
      disabled           |-> repo.disabled,
      private            |-> repo.private,
      url                |-> repo.url,
      languages          |-> repo.languages,
      dependabot_enabled |-> repo.dependabot_enabled,
      dependabot_alerts  |->
          [j \in 1..Len(repo.dependabot_alerts) |->
              WithFullName(get_reduced_alert(repo.dependabot_alerts[j]),
                           repo_identifier)] ]

ReduceRepo(repo_identifier, repo) ==
    [ full_name          |-> repo.full_name,
      archived           |-> repo.archived,
      disabled           |-> repo.disabled,
      private            |-> repo.private,
      url                |-> repo.url,
      languages          |-> repo.languages,
      dependabot_enabled |-> repo.dependabot_enabled,
      dependabot_alerts  |->
          IF repo.dependabot_enabled
          THEN [j \in 1..Len(repo.dependabot_alerts) |->
                   WithFullName(get_reduced_alert(repo.dependabot_alerts[j]),
                                repo_identifier)]
          ELSE <<>> ]

\* a variant that keeps the alerts of repositories without dependabot
get_reduced_repo_data_always(data) ==
    [i \in 1..Len(data) |-> <<data[i][1], ReduceRepo_always(data[i][1], data[i][2])>>]

get_reduced_repo_data(data) ==
    [i \in 1..Len(data) |-> <<data[i][1], ReduceRepo(data[i][1], data[i][2])>>]

\* the loop raises at the first alert of a repository with dependabot
\* enabled that get_reduced_alert fails on; the local dict is lost
RepoDataRaises(data) ==
    \E i \in 1..Len(data) :
        /\ data[i][2].dependabot_enabled
        /\ \E j \in 1..Len(data[i][2].dependabot_alerts) :
              Raised(get_reduced_alert(data[i][2].dependabot_alerts[j]))

(***************************************************************************)
(* create_repo_alerts_vs_org                                               *)
(***************************************************************************)
CompareHeader ==
    <<"full_name", "archived", "disabled", "private", "dep_enabled",
      "repo_dep_alerts", "org_dep_alerts">>

CompareRecord(org_alerts, repo_key, repo) ==
    LET repo_alert_count == IF repo.dependabot_alerts # <<>>
                            THEN Len(repo.dependabot_alerts) ELSE 0
        org_alert_count  == IF DictHas(org_alerts, repo_key)
                            THEN Len(DictGet(org_alerts, repo_key)) ELSE 0
    IN  <<repo_key, repo.archived, repo.disabled, repo.private,
          repo.dependabot_enabled, repo_alert_count, org_alert_count>>

\* a variant that skips the archived repositories, as the overviews do
create_repo_alerts_vs_org_active(org_alerts, repos_data) ==
    <<CompareHeader>> \o
    SelectSeq([i \in 1..Len(repos_data) |->
                  CompareRecord(org_alerts, repos_data[i][1], repos_data[i][2])],
              LAMBDA rec : ~rec[2])

create_repo_alerts_vs_org(org_alerts, repos_data) ==
    <<CompareHeader>> \o
    [i \in 1..Len(repos_data) |->
        CompareRecord(org_alerts, repos_data[i][1], repos_data[i][2])]

(***************************************************************************)
(* get_exist_open_alerts, create_gh_overview                               *)
(***************************************************************************)
\* a variant that looks at the first alert only
get_exist_open_alerts_first(alerts) == Len(alerts) > 0 /\ "open" = alerts[1].state

get_exist_open_alerts(alerts) == \E j \in 1..Len(alerts) : "open" = alerts[j].state

OverviewCounters0 ==
    [ number_of_repos                        |-> 0,
      number_of_repos_archived               |-> 0,
      number_of_repos_private                |-> 0,
      number_of_repos_dependabot_enabled     |-> 0,
      number_of_repos_dependabot_alerts      |-> 0,
      number_of_repos_dependabot_alerts_open |-> 0 ]

Inc(b) == IF b THEN 1 ELSE 0

\* a variant that counts the private repositories among the archived ones too
OverviewCount_private_all(c, repo) ==
    LET c1 == [c EXCEPT !.number_of_repos = @ + 1,
                        !.number_of_repos_private = @ + Inc(repo.private)]
    IN  IF repo.archived
        THEN [c1 EXCEPT !.number_of_repos_archived = @ + 1]
        ELSE [c1 EXCEPT
                !.number_of_repos_dependabot_enabled = @ + Inc(repo.dependabot_enabled),
                !.number_of_repos_dependabot_alerts =
                    @ + Inc(repo.dependabot_alerts # <<>>
                            /\ Len(repo.dependabot_alerts) > 0),
                !.number_of_repos_dependabot_alerts_open =
                    @ + Inc(repo.dependabot_alerts # <<>>
                            /\ get_exist_open_alerts(repo.dependabot_alerts))]

\* one iteration of the loop over repos_data
OverviewCount(c, repo) ==
    LET c1 == [c EXCEPT !.number_of_repos = @ + 1]
    IN  IF repo.archived
        THEN [c1 EXCEPT !.number_of_repos_archived = @ + 1]
        ELSE [c1 EXCEPT
                !.number_of_repos_private = @ + Inc(repo.private),
                !.number_of_repos_dependabot_enabled = @ + Inc(repo.dependabot_enabled),
                !.number_of_repos_dependabot_alerts =
                    @ + Inc(repo.dependabot_alerts # <<>>
                            /\ Len(repo.dependabot_alerts) > 0),
                !.number_of_repos_dependabot_alerts_open =
                    @ + Inc(repo.dependabot_alerts # <<>>
                            /\ get_exist_open_alerts(repo.dependabot_alerts))]

RECURSIVE OverviewLoop(_, _, _)
OverviewLoop(repos_data, i, c) ==
    IF i > Len(repos_data) THEN c
    ELSE OverviewLoop(repos_data, i + 1, OverviewCount(c, repos_data[i][2]))

create_gh_overview(repos_data) ==
    LET c      == OverviewLoop(repos_data, 1, OverviewCounters0)
        active == c.number_of_repos - c.number_of_repos_archived
        public == active - c.number_of_repos_private
    IN  << <<"What", "Case", "Value">>,
           <<"repositories", "number of all", c.number_of_repos>>,
           <<"repositories", "number of archived", c.number_of_repos_archived>>,
           <<"repositories", "number of active", active>>,
           <<"repositories", "number of private", c.number_of_repos_private>>,
           <<"repositories", "number of public", public>>,
           <<"repositories", "number of enabled dependabot",
             c.number_of_repos_dependabot_enabled>>,
           <<"repositories", "number of repos with dependabot alerts",
             c.number_of_repos_dependabot_alerts>>,
           <<"repositories", "number of repos with open dependabot alerts",
             c.number_of_repos_dependabot_alerts_open>> >>

(***************************************************************************)
(* Loop over repos_data that skips the archived repositories: the indices  *)
(* of the repositories for which a record is appended.                     *)
(***************************************************************************)
RECURSIVE ActiveLoop(_, _, _)
ActiveLoop(repos_data, i, kept) ==
    IF i > Len(repos_data) THEN kept
    ELSE IF repos_data[i][2].archived
         THEN ActiveLoop(repos_data, i + 1, kept)
         ELSE ActiveLoop(repos_data, i + 1, Append(kept, i))

\* a variant that skips nothing
ActiveIndices_all(repos_data) == [i \in 1..Len(repos_data) |-> i]

ActiveIndices(repos_data) == ActiveLoop(repos_data, 1, <<>>)

(***************************************************************************)
(* create_gh_repo_short_overview                                           *)
(***************************************************************************)
ShortHeader ==
    <<"repo", "private", "dependabot",
      "dep_cri_open", "dep_cri_dismissed", "dep_cri_fixed",
      "dep_hig_open", "dep_hig_dismissed", "dep_hig_fixed">>

\* a variant that forgets the severity "high"
ShortSeverity_no_high(severity) ==
    IF "critical" = severity THEN "cri" ELSE "pass"

\* the counter an alert increments ("pass": none)
ShortSeverity(severity) ==
    IF "critical" = severity THEN "cri"
    ELSE IF "high" = severity THEN "hig"
    ELSE "pass"

\* a variant that takes every state but "open" for "fixed"
AlertState_fixed(state) ==
    IF "open" = state THEN "open" ELSE "fixed"

AlertState(state) ==
    IF "open" = state THEN "open"
    ELSE IF "fixed" = state THEN "fixed"
    ELSE "dismissed"

\* the loop over the alerts of one repository: one counter is incremented per alert
RECURSIVE CountLoop(_, _, _)
CountLoop(buckets, j, c) ==
    IF j > Len(buckets) THEN c
    ELSE CountLoop(buckets, j + 1,
                   IF buckets[j][1] = "pass" THEN c ELSE [c EXCEPT ![buckets[j]] = @ + 1])

ShortBuckets(alerts) ==
    [j \in 1..Len(alerts) |->
        <<ShortSeverity(alerts[j].severity), AlertState(alerts[j].state)>>]

ShortCounters0 == [k \in {"cri", "hig"} \X {"open", "dismissed", "fixed"} |-> 0]

\* a variant that writes the fixed counters in the dismissed columns and
\* the dismissed counters in the fixed columns
ShortRecord_swapped(repo_key, repo) ==
    LET c == CountLoop(ShortBuckets(repo.dependabot_alerts), 1, ShortCounters0)
    IN  <<repo_key, repo.private, repo.dependabot_enabled,
          c[<<"cri", "open">>], c[<<"cri", "fixed">>], c[<<"cri", "dismissed">>],
          c[<<"hig", "open">>], c[<<"hig", "fixed">>], c[<<"hig", "dismissed">>]>>

ShortRecord(repo_key, repo) ==
    LET c == CountLoop(ShortBuckets(repo.dependabot_alerts), 1, ShortCounters0)
    IN  <<repo_key, repo.private, repo.dependabot_enabled,
          c[<<"cri", "open">>], c[<<"cri", "dismissed">>], c[<<"cri", "fixed">>],
          c[<<"hig", "open">>], c[<<"hig", "dismissed">>], c[<<"hig", "fixed">>]>>

create_gh_repo_short_overview(repos_data) ==
    LET kept == ActiveIndices(repos_data)
    IN  <<ShortHeader>> \o
        [r \in 1..Len(kept) |->
            ShortRecord(repos_data[kept[r]][1], repos_data[kept[r]][2])]

(***************************************************************************)
(* get_max_and_avg_time                                                    *)
(***************************************************************************)
\* the largest element and the sum of a non-empty list of numbers
RECURSIVE Largest(_)
Largest(list) ==
    IF Len(list) = 1 THEN list[1]
    ELSE LET m == Largest(Tail(list)) IN IF list[1] > m THEN list[1] ELSE m

RECURSIVE Sum(_)
Sum(list) == IF list = <<>> THEN 0 ELSE list[1] + Sum(Tail(list))

RECURSIVE GCD(_, _)
GCD(a, b) == IF b = 0 THEN a ELSE GCD(b, a % b)

Abs(a) == IF a < 0 THEN -a ELSE a

\* num / den for den > 0
Quotient(num, den) ==
    LET g == GCD(Abs(num), den)
    IN  [num |-> num \div g, den |-> den \div g]

Zero == [num |-> 0, den |-> 1]

RECURSIVE MaxSumLoop(_, _, _, _)
MaxSumLoop(time_list, i, item_max, item_sum) ==
    IF i > Len(time_list) THEN [max |-> item_max, sum |-> item_sum]
    ELSE LET item == time_list[i]
         IN  MaxSumLoop(time_list, i + 1,
                        IF item > item_max THEN item ELSE item_max,
                        item_sum + item)

\* a variant that starts the maximum below every day-count
get_max_and_avg_time_low_start(time_list) ==
    LET r == MaxSumLoop(time_list, 1, -1, 0)
    IN  [ max |-> r.max,
          avg |-> IF Len(time_list) > 0 THEN Quotient(r.sum, Len(time_list)) ELSE Zero ]

get_max_and_avg_time(time_list) ==
    LET r == MaxSumLoop(time_list, 1, 0, 0)
    IN  [ max |-> r.max,
          avg |-> IF Len(time_list) > 0 THEN Quotient(r.sum, Len(time_list)) ELSE Zero ]

(***************************************************************************)
(* create_gh_repo_overview                                                 *)
(***************************************************************************)
FullHeader ==
    <<"full_name", "private", "dependabot",
      "dep_cri_open", "dep_cri_dismissed", "dep_cri_fixed",
      "dep_hig_open", "dep_hig_dismissed", "dep_hig_fixed",
      "dep_med_open", "dep_med_dismissed", "dep_med_fixed",
      "dep_low_open", "dep_low_dismissed", "dep_low_fixed",
      "open_cri_max", "open_cri_avg", "open_hig_max", "open_hig_avg">>

\* a variant that forgets the severity "low"
FullSeverity_no_low(severity) ==
    IF "critical" = severity THEN "cri"
    ELSE IF "high" = severity THEN "hig"
    ELSE IF "medium" = severity THEN "med"
    ELSE "pass"

FullSeverity(severity) ==
    IF "critical" = severity THEN "cri"
    ELSE IF "high" = severity THEN "hig"
    ELSE IF "medium" = severity THEN "med"
    ELSE IF "low" = severity THEN "low"
    ELSE "pass"

FullBuckets(alerts) ==
    [j \in 1..Len(alerts) |->
        <<FullSeverity(alerts[j].severity), AlertState(alerts[j].state)>>]

FullCounters0 ==
    [k \in {"cri", "hig", "med", "low"} \X {"open", "dismissed", "fixed"} |-> 0]

\* datetime.strptime(s, "%Y-%m-%dT%H:%M:%SZ"), in hours
strptime(s) == s.day * HoursPerDay + s.hour

\* (updated_datetime - created_datetime).days: whole days, rounded down
TimeDiffDays(updated_datetime, created_datetime) ==
    (updated_datetime - created_datetime) \div HoursPerDay

\* days_open of one alert; now is the reading of datetime.utcnow()
DaysOpen(alert, now) ==
    LET created_datetime == strptime(alert.created_at)
        updated_datetime == IF "open" = alert.state THEN now
                            ELSE strptime(alert.updated_at)
    IN  TimeDiffDays(updated_datetime, created_datetime)

\* the alerts for which create_gh_repo_overview reads the clock
OpenSlots(repos_data) ==
    { s \in UNION { {i} \X (1..Len(repos_data[i][2].dependabot_alerts)) :
                    i \in 1..Len(repos_data) } :
        /\ ~repos_data[s[1]][2].archived
        /\ "open" = repos_data[s[1]][2].dependabot_alerts[s[2]].state }

\* the number of calls of datetime.utcnow() up to and including the one for
\* alert j of repository i
ReadNo(repos_data, i, j) ==
    Cardinality({s \in OpenSlots(repos_data) :
                    s[1] < i \/ (s[1] = i /\ s[2] <= j)})

\* days_open_critical / days_open_high of repository i: the days of its alerts
\* of one severity, in order
RECURSIVE DaysLoop(_, _, _, _, _, _)
DaysLoop(repos_data, i, j, clk, severity, days) ==
    LET alerts == repos_data[i][2].dependabot_alerts
    IN  IF j > Len(alerts) THEN days
        ELSE DaysLoop(repos_data, i, j + 1, clk, severity,
                 IF severity = alerts[j].severity
                 THEN Append(days,
                          DaysOpen(alerts[j],
                                   IF "open" = alerts[j].state
                                   THEN clk[ReadNo(repos_data, i, j)] ELSE 0))
                 ELSE days)

DaysOpenList(repos_data, i, clk, severity) ==
    DaysLoop(repos_data, i, 1, clk, severity, <<>>)

FullRecord(repos_data, i, clk) ==
    LET repo_key      == repos_data[i][1]
        repo          == repos_data[i][2]
        c             == CountLoop(FullBuckets(repo.dependabot_alerts), 1, FullCounters0)
        days_critical == get_max_and_avg_time(DaysOpenList(repos_data, i, clk, "critical"))
        days_high     == get_max_and_avg_time(DaysOpenList(repos_data, i, clk, "high"))
    IN  <<repo_key, repo.private, repo.dependabot_enabled,
          c[<<"cri", "open">>], c[<<"cri", "dismissed">>], c[<<"cri", "fixed">>],
          c[<<"hig", "open">>], c[<<"hig", "dismissed">>], c[<<"hig", "fixed">>],
          c[<<"med", "open">>], c[<<"med", "dismissed">>], c[<<"med", "fixed">>],
          c[<<"low", "open">>], c[<<"low", "dismissed">>], c[<<"low", "fixed">>],
          days_critical.max, days_critical.avg, days_high.max, days_high.avg>>

create_gh_repo_overview(repos_data, clk) ==
    LET kept == ActiveIndices(repos_data)
    IN  <<FullHeader>> \o
        [r \in 1..Len(kept) |-> FullRecord(repos_data, kept[r], clk)]

(***************************************************************************)
(* create_gh_languages_overview, create_gh_languages_summary               *)
(***************************************************************************)
RECURSIVE LanguagesLoop(_, _, _)
LanguagesLoop(repos_data, i, csv_records) ==
    IF i > Len(repos_data) THEN csv_records
    ELSE LET repo_key  == repos_data[i][1]
             languages == repos_data[i][2].languages
         IN  LanguagesLoop(repos_data, i + 1,
                 IF repos_data[i][2].archived THEN csv_records
                 ELSE csv_records \o
                      [l \in 1..Len(languages) |-> <<repo_key, languages[l]>>])

create_gh_languages_overview(repos_data) ==
    LanguagesLoop(repos_data, 1, << <<"full_name", "language">> >>)

\* a variant that marks a language as seen instead of counting it
RECURSIVE LanguageCount_seen(_, _, _)
LanguageCount_seen(languages, l, language_counters) ==
    IF l > Len(languages) THEN language_counters
    ELSE LanguageCount_seen(languages, l + 1,
             DictSet(language_counters, languages[l], 1))

RECURSIVE LanguageCount(_, _, _)
LanguageCount(languages, l, language_counters) ==
    IF l > Len(languages) THEN language_counters
    ELSE LET language         == languages[l]
             language_counter == IF DictHas(language_counters, language)
                                 THEN DictGet(language_counters, language)
                                 ELSE 0
         IN  LanguageCount(languages, l + 1,
                 DictSet(language_counters, language, language_counter + 1))

RECURSIVE SummaryLoop(_, _, _)
SummaryLoop(repos_data, i, language_counters) ==
    IF i > Len(repos_data) THEN language_counters
    ELSE SummaryLoop(repos_data, i + 1,
             IF repos_data[i][2].archived THEN language_counters
             ELSE LanguageCount(repos_data[i][2].languages, 1, language_counters))

create_gh_languages_summary(repos_data) ==
    LET language_counters == SummaryLoop(repos_data, 1, <<>>)
    IN  << <<"language", "repo_count">> >> \o
        [l \in 1..Len(language_counters) |->
            <<language_counters[l][1], language_counters[l][2]>>]

(***************************************************************************)
(* The raw records of the snapshots (the fields the pipeline reads).       *)
(***************************************************************************)
Timestamps == [day : 0..MaxDay, hour : Hours]

T0 == [day |-> 0, hour |-> 0]

AlertKind(state, severity, created_at, updated_at) ==
    [state |-> state, severity |-> severity,
     created_at |-> created_at, updated_at |-> updated_at]

\* an alert of the per-repository feed
RawAlert(number, kind) ==
    [ number                 |-> number,
      state                  |-> kind.state,
      created_at             |-> kind.created_at,
      updated_at             |-> kind.updated_at,
      dependency             |-> [package |-> [name |-> "pkg", ecosystem |-> "pip"],
                                  scope |-> "runtime"],
      security_advisory      |-> [ghsa_id |-> "GHSA"],
      security_vulnerability |-> [severity |-> kind.severity],
      url                    |-> "alert-url" ]

\* an alert of the organization feed carries its repository
OrgRawAlert(number, kind, full_name) ==
    ("repository" :> [full_name |-> full_name, url |-> "repo-url"])
        @@ RawAlert(number, kind)

RawRepo(full_name, flags, alerts, languages) ==
    [ full_name          |-> full_name,
      archived           |-> flags.archived,
      disabled           |-> flags.disabled,
      private            |-> flags.private,
      url                |-> "repo-url",
      languages          |-> languages,
      dependabot_enabled |-> flags.dependabot_enabled,
      dependabot_alerts  |-> alerts ]

SeqsUpTo(S, n) == UNION {[1..k -> S] : k \in 0..n}

\* the alert lists of a repository: up to MaxAlerts alerts, numbered in order
AlertLists(Kinds) ==
    { [j \in 1..Len(ks) |-> RawAlert(j, ks[j])] : ks \in SeqsUpTo(Kinds, MaxAlerts) }

RECURSIVE SumLen(_, _)
SumLen(a, n) == IF n = 0 THEN 0 ELSE Len(a[n]) + SumLen(a, n - 1)

Identity(n) == [i \in 1..n |-> i]

\* the dict with the given keys, in the given order
RepoDict(keys, f, a, l) ==
    [i \in 1..Len(keys) |-> <<keys[i], RawRepo(keys[i], f[i], a[i], l[i])>>]


(***************************************************************************)
(* main(): the pipeline, one action per call.                              *)
(***************************************************************************)
GetReducedOrgAlerts ==
    /\ pc = "start"
    /\ IF OrgAlertsRaise(gh_org_alerts)
       THEN /\ pc' = "KeyError"
            /\ UNCHANGED redu_org_alert
       ELSE /\ redu_org_alert' = get_reduced_org_alerts(gh_org_alerts)
            /\ pc' = "org_alerts_reduced"
    /\ UNCHANGED <<gh_org_alerts, gh_repo_data, redu_repo_data, overview, repo_overview,
                   repo_short_overview, alerts_vs_org, languages_overview,
                   languages_summary, utcnow>>
    /\ UNCHANGED fetch

GetReducedRepoData ==
    /\ pc = "org_alerts_reduced"
    /\ IF RepoDataRaises(gh_repo_data)
       THEN /\ pc' = "KeyError"
            /\ UNCHANGED redu_repo_data
       ELSE /\ redu_repo_data' = get_reduced_repo_data(gh_repo_data)
            /\ pc' = "repo_data_reduced"
    /\ UNCHANGED <<gh_org_alerts, gh_repo_data, redu_org_alert, overview, repo_overview,
                   repo_short_overview, alerts_vs_org, languages_overview,
                   languages_summary, utcnow>>
    /\ UNCHANGED fetch

CreateGhOverview ==
    /\ pc = "repo_data_reduced"
    /\ overview' = create_gh_overview(redu_repo_data)
    /\ pc' = "Overview"
    /\ UNCHANGED <<gh_org_alerts, gh_repo_data, redu_org_alert, redu_repo_data,
                   repo_overview, repo_short_overview, alerts_vs_org, languages_overview,
                   languages_summary, utcnow>>
    /\ UNCHANGED fetch

CreateGhRepoOverview ==
    /\ pc = "Overview"
    /\ repo_overview' = create_gh_repo_overview(redu_repo_data, utcnow)
    /\ pc' = "ARepos"
    /\ UNCHANGED <<gh_org_alerts, gh_repo_data, redu_org_alert, redu_repo_data, overview,
                   repo_short_overview, alerts_vs_org, languages_overview,
                   languages_summary, utcnow>>
    /\ UNCHANGED fetch

CreateGhRepoShortOverview ==
    /\ pc = "ARepos"
    /\ repo_short_overview' = create_gh_repo_short_overview(redu_repo_data)
    /\ pc' = "AReposShort"
    /\ UNCHANGED <<gh_org_alerts, gh_repo_data, redu_org_alert, redu_repo_data, overview,
                   repo_overview, alerts_vs_org, languages_overview, languages_summary,
                   utcnow>>
    /\ UNCHANGED fetch

CreateRepoAlertsVsOrg ==
    /\ pc = "AReposShort"
    /\ alerts_vs_org' = create_repo_alerts_vs_org(redu_org_alert, redu_repo_data)
    /\ pc' = "CompareOrgVsRepo"
    /\ UNCHANGED <<gh_org_alerts, gh_repo_data, redu_org_alert, redu_repo_data, overview,
                   repo_overview, repo_short_overview, languages_overview,
                   languages_summary, utcnow>>
    /\ UNCHANGED fetch

CreateGhLanguagesOverview ==
    /\ pc = "CompareOrgVsRepo"
    /\ languages_overview' = create_gh_languages_overview(redu_repo_data)
    /\ pc' = "Languages"
    /\ UNCHANGED <<gh_org_alerts, gh_repo_data, redu_org_alert, redu_repo_data, overview,
                   repo_overview, repo_short_overview, alerts_vs_org, languages_summary,
                   utcnow>>
    /\ UNCHANGED fetch

CreateGhLanguagesSummary ==
    /\ pc = "Languages"
    /\ languages_summary' = create_gh_languages_summary(redu_repo_data)
    /\ pc' = "LanguageSummary"
    /\ UNCHANGED <<gh_org_alerts, gh_repo_data, redu_org_alert, redu_repo_data, overview,
                   repo_overview, repo_short_overview, alerts_vs_org, languages_overview,
                   utcnow>>
    /\ UNCHANGED fetch

Next ==
    \/ GetReducedOrgAlerts
    \/ GetReducedRepoData
    \/ CreateGhOverview
    \/ CreateGhRepoOverview
    \/ CreateGhRepoShortOverview
    \/ CreateRepoAlertsVsOrg
    \/ CreateGhLanguagesOverview
    \/ CreateGhLanguagesSummary

(***************************************************************************)
(* get_gh_data.py, request_pagination(url, headers).                       *)
(*   URL      the record [page, per_page]: the page it addresses and       *)
(*            whether the text "?per_page=100" is in it; None is the       *)
(*            record of page 0                                             *)
(*   server   bodies[k] is the JSON list of page k, next[k] the page its   *)
(*            'next' link addresses (0: the response has no 'next' link),  *)
(*            fail_at the number of the request answered with a status     *)
(*            other than 200 (0: none)                                     *)
(***************************************************************************)
MaxPages == 2
MaxRequests == 3

Items == {"a", "b"}

None == [page |-> 0, per_page |-> FALSE]

PageUrl(k) == [page |-> k, per_page |-> TRUE]

NoResponse == [status_code |-> 0, json |-> <<>>, links |-> [first |-> PageUrl(1)]]

\* requests.get(url, headers=headers): the answer to the k-th request
requests_get(srv, u, k) ==
    IF k = srv.fail_at
    THEN [status_code |-> 403, json |-> <<>>, links |-> [first |-> PageUrl(1)]]
    ELSE [status_code |-> 200,
          json        |-> srv.bodies[u.page],
          links       |-> IF srv.next[u.page] # 0
                          THEN [first |-> PageUrl(1),
                                next  |-> [url |-> PageUrl(srv.next[u.page])]]
                          ELSE [first |-> PageUrl(1)]]

\* a variant that asks again after a status other than 200
OnResponse_retry(resp, res, u) ==
    IF resp.status_code = 200
    THEN [ results |-> res \o resp.json,
           url     |-> IF "next" \in DOMAIN resp.links
                       THEN resp.links.next.url ELSE None,
           break   |-> FALSE ]
    ELSE [results |-> res, url |-> u, break |-> FALSE]

\* the body of the while loop after the request
OnResponse(resp, res, u) ==
    IF resp.status_code = 200
    THEN [ results |-> res \o resp.json,
           url     |-> IF "next" \in DOMAIN resp.links
                       THEN resp.links.next.url ELSE None,
           break   |-> FALSE ]
    ELSE [results |-> res, url |-> u, break |-> TRUE]

\* results = []; "?per_page=100" is appended unless the url contains it
Enter ==
    /\ fetch_pc = "idle"
    /\ results' = <<>>
    /\ url' = IF ~url.per_page THEN [url EXCEPT !.per_page = TRUE] ELSE url
    /\ fetch_pc' = "while"
    /\ UNCHANGED <<response, num_requests, server>>
    /\ UNCHANGED report

\* while url: response = requests.get(url, headers=headers)
RequestsGet ==
    /\ fetch_pc = "while"
    /\ url # None
    /\ num_requests < MaxRequests
    /\ num_requests' = num_requests + 1
    /\ response' = requests_get(server, url, num_requests + 1)
    /\ fetch_pc' = "response"
    /\ UNCHANGED <<url, results, server>>
    /\ UNCHANGED report

\* the rest of the loop body; break leaves the loop and results is returned
HandleResponse ==
    /\ fetch_pc = "response"
    /\ LET out == OnResponse(response, results, url)
       IN  /\ results' = out.results
           /\ url' = out.url
           /\ fetch_pc' = IF out.break THEN "returned" ELSE "while"
    /\ UNCHANGED <<response, num_requests, server>>
    /\ UNCHANGED report

\* url is None: the loop ends and results is returned
Return ==
    /\ fetch_pc = "while"
    /\ url = None
    /\ fetch_pc' = "returned"
    /\ UNCHANGED <<url, results, response, num_requests, server>>
    /\ UNCHANGED report

NextPagination ==
    \/ Enter
    \/ RequestsGet
    \/ HandleResponse
    \/ Return

\* request_pagination is not running
FetchIdle ==
    /\ fetch_pc = "idle"
    /\ url = None
    /\ results = <<>>
    /\ response = NoResponse
    /\ num_requests = 0
    /\ server = [bodies |-> <<>>, next |-> <<>>, fail_at |-> 0]

(***************************************************************************)
(* The snapshots main() starts from.  Nothing has been computed yet.       *)
(***************************************************************************)
NumReads(repo_data) == Cardinality(OpenSlots(get_reduced_repo_data(repo_data)))

InitFiles(org_alerts, repo_data, Clock) ==
    /\ pc = "start"
    /\ gh_org_alerts = org_alerts
    /\ gh_repo_data = repo_data
    /\ redu_org_alert = <<>>
    /\ redu_repo_data = <<>>
    /\ overview = <<>>
    /\ repo_overview = <<>>
    /\ repo_short_overview = <<>>
    /\ alerts_vs_org = <<>>
    /\ languages_overview = <<>>
    /\ languages_summary = <<>>
    /\ utcnow \in [1..NumReads(repo_data) -> Clock]
    /\ FetchIdle

\* the clock readings
Datetimes == {strptime(t) : t \in Timestamps}

Now0 == strptime([day |-> MaxDay, hour |-> 0])

\* Overview counters: up to MaxRepos repositories with every combination of
\* archived / private / dependabot_enabled, holding up to MaxAlerts open or
\* fixed alerts in all.
OverviewKinds == {AlertKind(st, "critical", T0, T0) : st \in {"open", "fixed"}}

OverviewFlags ==
    [archived : BOOLEAN, disabled : {FALSE}, private : BOOLEAN,
     dependabot_enabled : BOOLEAN]

OverviewAlertLists == AlertLists(OverviewKinds)

Init ==
    \E n \in 0..MaxRepos :
        \E f \in [1..n -> OverviewFlags], a \in [1..n -> OverviewAlertLists] :
            /\ SumLen(a, n) <= MaxAlerts
            /\ InitFiles(<<>>, RepoDict(Identity(n), f, a, [i \in 1..n |-> <<>>]), {Now0})

Spec == Init /\ [][Next]_vars

\* Bucket counts: one active repository holding up to MaxAlerts alerts of
\* every state and severity, alone or after MaxRepos - 1 repositories
\* without alerts, all of them archived or none.
BucketKinds == {AlertKind(st, sv, T0, T0) : st \in States, sv \in Severities}

BucketAlertLists == AlertLists(BucketKinds)

PlainFlags ==
    [archived : BOOLEAN, disabled : {FALSE}, private : {FALSE},
     dependabot_enabled : {FALSE}]

FocusFlags ==
    [archived : {FALSE}, disabled : {FALSE}, private : {TRUE},
     dependabot_enabled : {TRUE}]

InitBuckets ==
    \E n \in {1, MaxRepos} :
        \E f \in [1..n -> PlainFlags \cup FocusFlags], alerts \in BucketAlertLists :
            /\ \A i \in 1..n : f[i] \in FocusFlags <=> i = n
            /\ \A i, h \in 1..(n - 1) : f[i] = f[h]
            /\ InitFiles(<<>>,
                   RepoDict(Identity(n), f,
                            [i \in 1..n |-> IF i = n THEN alerts ELSE <<>>],
                            [i \in 1..n |-> <<>>]),
                   {Now0})

SpecBuckets == InitBuckets /\ [][Next]_vars

\* Comparison with the organization feed: up to MaxRepos repositories, their
\* keys in descending order, archived or not, holding up to MaxAlerts
\* alerts in all, and a feed of up to MaxAlerts alerts of these repositories
\* and of one more.
CompareKinds == {AlertKind("fixed", "critical", T0, T0)}

CompareAlertLists == AlertLists(CompareKinds)

CompareFlags ==
    [archived : BOOLEAN, disabled : {FALSE}, private : {FALSE},
     dependabot_enabled : {TRUE}]

Reversed(n) == [i \in 1..n |-> n + 1 - i]

OrgFeed(names) ==
    [k \in 1..Len(names) |->
        OrgRawAlert(k, AlertKind("fixed", "critical", T0, T0), names[k])]

InitCompare ==
    \E n \in 0..MaxRepos :
        \E f \in [1..n -> CompareFlags],
           a \in [1..n -> CompareAlertLists],
           names \in SeqsUpTo(1..(MaxRepos + 1), MaxAlerts) :
            /\ SumLen(a, n) <= MaxAlerts
            /\ InitFiles(OrgFeed(names),
                         RepoDict(Reversed(n), f, a, [i \in 1..n |-> <<>>]), {Now0})

SpecCompare == InitCompare /\ [][Next]_vars

\* Grouping of the organization feed: up to MaxFeed alerts of MaxRepos + 1
\* repositories, alert numbers repeating.
FeedNumbers == {1, 2}

InitFeed ==
    \E feed \in SeqsUpTo((1..(MaxRepos + 1)) \X FeedNumbers, MaxFeed) :
        InitFiles([k \in 1..Len(feed) |->
                      OrgRawAlert(feed[k][2], AlertKind("open", "high", T0, T0),
                                  feed[k][1])],
                  <<>>, {Now0})

SpecFeed == InitFeed /\ [][Next]_vars

\* Days open: one active repository holding up to MaxAlerts alerts created at
\* noon of day 0; a fixed alert was updated at any time (before its creation
\* too), for an open alert the clock reads any time.
Noon0 == [day |-> 0, hour |-> 12]

TimeSeverities == {"critical", "high", "medium"}

TimeKinds ==
    {AlertKind("open", sv, Noon0, Noon0) : sv \in TimeSeverities}
    \cup {AlertKind("fixed", sv, Noon0, u) : sv \in TimeSeverities, u \in Timestamps}

TimeAlertLists == AlertLists(TimeKinds)

InitTimes ==
    \E alerts \in TimeAlertLists :
        InitFiles(<<>>,
                  RepoDict(Identity(1), [i \in 1..1 |-> CHOOSE f \in FocusFlags : TRUE],
                           [i \in 1..1 |-> alerts], [i \in 1..1 |-> <<>>]),
                  Datetimes)

SpecTimes == InitTimes /\ [][Next]_vars

\* Languages: up to MaxRepos repositories, archived or not, with every list
\* of languages, with or without an alert.
LanguageLists ==
    {l \in SeqsUpTo(Languages, Cardinality(Languages)) :
        \A x, y \in 1..Len(l) : l[x] = l[y] => x = y}

LanguageFlags ==
    [archived : BOOLEAN, disabled : {FALSE}, private : {FALSE},
     dependabot_enabled : {TRUE}]

LanguageAlertLists ==
    {<<>>, <<RawAlert(1, AlertKind("fixed", "critical", T0, T0))>>}

InitLanguages ==
    \E n \in 0..MaxRepos :
        \E f \in [1..n -> LanguageFlags],
           a \in [1..n -> LanguageAlertLists],
           l \in [1..n -> LanguageLists] :
            /\ SumLen(a, n) <= MaxAlerts
            /\ InitFiles(<<>>, RepoDict(Identity(n), f, a, l), {Now0})

SpecLanguages == InitLanguages /\ [][Next]_vars

\* Data shapes: a feed of up to MaxFeed alerts and one repository, with
\* dependabot enabled or not, holding up to MaxAlerts alerts; at most one
\* alert of the feed and at most one of the repository lack a key, at any
\* depth.
RECURSIVE Remove(_, _)
Remove(obj, path) ==
    IF Len(path) = 1
    THEN [k \in DOMAIN obj \ {path[1]} |-> obj[k]]
    ELSE [k \in DOMAIN obj |->
             IF k = path[1] THEN Remove(obj[k], Tail(path)) ELSE obj[k]]

AlertKeys ==
    { <<"number">>, <<"state">>, <<"created_at">>, <<"updated_at">>,
      <<"dependency">>, <<"dependency", "package">>,
      <<"dependency", "package", "name">>,
      <<"dependency", "package", "ecosystem">>,
      <<"dependency", "scope">>,
      <<"security_advisory">>, <<"security_advisory", "ghsa_id">>,
      <<"security_vulnerability">>, <<"security_vulnerability", "severity">>,
      <<"url">> }

OrgAlertKeys ==
    AlertKeys \cup {<<"repository">>, <<"repository", "full_name">>,
                    <<"repository", "url">>}

\* the list itself, and the list with one key removed from one alert
LackingOne(list, Keys) ==
    {list} \cup {[list EXCEPT ![j] = Remove(list[j], path)] :
                    j \in 1..Len(list), path \in Keys}

ShapeFlags(enabled) ==
    [archived |-> FALSE, disabled |-> FALSE, private |-> FALSE,
     dependabot_enabled |-> enabled]

InitShapes ==
    \E len \in 0..MaxFeed, m \in 0..MaxAlerts, enabled \in BOOLEAN :
        \E feed \in LackingOne(OrgFeed([k \in 1..len |-> 1]), OrgAlertKeys),
           alerts \in LackingOne(
                         [j \in 1..m |->
                             RawAlert(j, AlertKind("fixed", "critical", T0, T0))],
                         AlertKeys) :
            /\ pc = "start"
            /\ gh_org_alerts = feed
            /\ gh_repo_data = <<<<1, RawRepo(1, ShapeFlags(enabled), alerts, <<>>)>>>>
            /\ redu_org_alert = <<>>
            /\ redu_repo_data = <<>>
            /\ overview = <<>>
            /\ repo_overview = <<>>
            /\ repo_short_overview = <<>>
            /\ alerts_vs_org = <<>>
            /\ languages_overview = <<>>
            /\ languages_summary = <<>>
            /\ utcnow = <<>>
            /\ FetchIdle

SpecShapes == InitShapes /\ [][Next]_vars

\* Pagination: a server of up to MaxPages pages of up to one item each,
\* every page with or without a 'next' link to any page, that answers every
\* request with status 200 or one of the first MaxRequests requests with
\* another status; the first url with or without "?per_page=100".
InitPagination ==
    \E n \in 1..MaxPages, per_page \in BOOLEAN, fail_at \in 0..MaxRequests :
        \E bodies \in [1..n -> SeqsUpTo(Items, 1)], next \in [1..n -> 0..n] :
            /\ fetch_pc = "idle"
            /\ url = [page |-> 1, per_page |-> per_page]
            /\ results = <<>>
            /\ response = NoResponse
            /\ num_requests = 0
            /\ server = [bodies |-> bodies, next |-> next, fail_at |-> fail_at]
            /\ pc = "start"
            /\ gh_org_alerts = <<>>
            /\ gh_repo_data = <<>>
            /\ redu_org_alert = <<>>
            /\ redu_repo_data = <<>>
            /\ overview = <<>>
            /\ repo_overview = <<>>
            /\ repo_short_overview = <<>>
            /\ alerts_vs_org = <<>>
            /\ languages_overview = <<>>
            /\ languages_summary = <<>>
            /\ utcnow = <<>>

\* the loop goes on as long as a step of it is possible
SpecPagination ==
    InitPagination /\ [][NextPagination]_vars /\ WF_vars(NextPagination)

(***************************************************************************)
(* Reading a table: row 1 is the header, data row r is row r + 1, and a    *)
(* column is found by its name in the header.                              *)
(***************************************************************************)
Col(table, name) == CHOOSE c \in 1..Len(table[1]) : table[1][c] = name

Field(table, r, name) == table[r + 1][Col(table, name)]

NumRows(table) == Len(table) - 1

\* the value of a counter row of the sheet "Overview"
OverviewValue(case) ==
    overview[CHOOSE r \in 2..Len(overview) : overview[r][2] = case][3]

\* the repositories of the reduced collection, by position
Repo(i) == redu_repo_data[i][2]

ActiveRepos == {i \in 1..Len(redu_repo_data) : ~Repo(i).archived}

(***************************************************************************)
(* C3: the rows of create_gh_overview satisfy  active = all - archived     *)
(* and  public = active - private,  and none of all, archived, active,     *)
(* private, public is negative.                                            *)
(***************************************************************************)
C3_OverviewArithmetic ==
    overview # <<>> =>
        /\ OverviewValue("number of active")
             = OverviewValue("number of all") - OverviewValue("number of archived")
        /\ OverviewValue("number of public")
             = OverviewValue("number of active") - OverviewValue("number of private")
        /\ \A case \in {"number of all", "number of archived", "number of active",
                        "number of private", "number of public"} :
              OverviewValue(case) >= 0

\* an overview of archived, private and public repositories, one of the
\* archived ones private
C3_Witness ==
    /\ overview # <<>>
    /\ OverviewValue("number of archived") > 0
    /\ OverviewValue("number of private") > 0
    /\ OverviewValue("number of public") >= 0
    /\ \E i \in 1..Len(redu_repo_data) : Repo(i).archived /\ Repo(i).private

(***************************************************************************)
(* C4: the counters private, enabled dependabot, repos with dependabot     *)
(* alerts and repos with open dependabot alerts are the numbers of         *)
(* non-archived repositories that are private, dependabot-enabled, hold an *)
(* alert, hold an alert in state "open"; an archived repository is counted *)
(* in "all" and "archived" only.                                           *)
(***************************************************************************)
C4_OverviewCounters ==
    overview # <<>> =>
        /\ OverviewValue("number of all") = Len(redu_repo_data)
        /\ OverviewValue("number of archived")
             = Cardinality({i \in 1..Len(redu_repo_data) : Repo(i).archived})
        /\ OverviewValue("number of private")
             = Cardinality({i \in ActiveRepos : Repo(i).private})
        /\ OverviewValue("number of enabled dependabot")
             = Cardinality({i \in ActiveRepos : Repo(i).dependabot_enabled})
        /\ OverviewValue("number of repos with dependabot alerts")
             = Cardinality({i \in ActiveRepos : Len(Repo(i).dependabot_alerts) >= 1})
        /\ OverviewValue("number of repos with open dependabot alerts")
             = Cardinality({i \in ActiveRepos :
                   \E j \in 1..Len(Repo(i).dependabot_alerts) :
                       Repo(i).dependabot_alerts[j].state = "open"})

\* an archived, private, enabled repository with an open alert next to an
\* active one whose alerts are all fixed
C4_Witness ==
    /\ overview # <<>>
    /\ \E i \in 1..Len(redu_repo_data) :
          /\ Repo(i).archived /\ Repo(i).private /\ Repo(i).dependabot_enabled
          /\ Len(Repo(i).dependabot_alerts) >= 1
          /\ Repo(i).dependabot_alerts[1].state = "open"
    /\ \E i \in ActiveRepos :
          /\ Len(Repo(i).dependabot_alerts) >= 1
          /\ \A j \in 1..Len(Repo(i).dependabot_alerts) :
                Repo(i).dependabot_alerts[j].state = "fixed"

(***************************************************************************)
(* Rows of the per-repository sheets.                                      *)
(***************************************************************************)
\* the data rows of a table whose first column is the repository key
RowsOf(table, repo_key) == {r \in 1..NumRows(table) : table[r + 1][1] = repo_key}

RECURSIVE SumFields(_, _, _)
SumFields(table, r, names) ==
    IF names = <<>> THEN 0
    ELSE Field(table, r, Head(names)) + SumFields(table, r, Tail(names))

ShortCountColumns ==
    <<"dep_cri_open", "dep_cri_dismissed", "dep_cri_fixed",
      "dep_hig_open", "dep_hig_dismissed", "dep_hig_fixed">>

FullCountColumns ==
    ShortCountColumns \o
    <<"dep_med_open", "dep_med_dismissed", "dep_med_fixed",
      "dep_low_open", "dep_low_dismissed", "dep_low_fixed">>

Alerts(i) == Repo(i).dependabot_alerts

AlertsOfSeverity(i, Sevs) == {j \in 1..Len(Alerts(i)) : Alerts(i)[j].severity \in Sevs}

(***************************************************************************)
(* C1: for every non-archived repository, the 12 count columns of its row  *)
(* in the full overview add up to the number of its alerts.                *)
(* As stated this fails: an alert whose severity is none of critical,      *)
(* high, medium, low is counted in no column.                              *)
(***************************************************************************)
C1_FullSumIsLen ==
    repo_overview # <<>> =>
        \A i \in ActiveRepos :
            \A r \in RowsOf(repo_overview, redu_repo_data[i][1]) :
                SumFields(repo_overview, r, FullCountColumns) = Len(Alerts(i))

\* C1 as amended: the 12 count columns add up to the number of the
\* repository's alerts whose severity is critical, high, medium or low, which
\* is the number of its alerts when every alert has one of these severities.
C1_FullSumIsKnownSeverities ==
    repo_overview # <<>> =>
        \A i \in ActiveRepos :
            /\ Cardinality(RowsOf(repo_overview, redu_repo_data[i][1])) = 1
            /\ \A r \in RowsOf(repo_overview, redu_repo_data[i][1]) :
                  SumFields(repo_overview, r, FullCountColumns)
                    = Cardinality(AlertsOfSeverity(i, {"critical", "high", "medium", "low"}))

\* a row whose repository holds two alerts of counted severities, one of them low
C1_Witness ==
    /\ repo_overview # <<>>
    /\ \E i \in ActiveRepos :
          /\ Len(Alerts(i)) = 2
          /\ AlertsOfSeverity(i, {"low"}) # {}
          /\ AlertsOfSeverity(i, {"critical", "high", "medium"}) # {}
          /\ \E r \in RowsOf(repo_overview, redu_repo_data[i][1]) :
                SumFields(repo_overview, r, FullCountColumns) = 2

(***************************************************************************)
(* C2: for every non-archived repository, the 6 count columns of its row   *)
(* in the short overview add up to the number of its alerts when all of    *)
(* them are critical or high, and to no more than that number otherwise.   *)
(***************************************************************************)
C2_ShortSum ==
    repo_short_overview # <<>> =>
        \A i \in ActiveRepos :
            /\ Cardinality(RowsOf(repo_short_overview, redu_repo_data[i][1])) = 1
            /\ \A r \in RowsOf(repo_short_overview, redu_repo_data[i][1]) :
                  LET sum == SumFields(repo_short_overview, r, ShortCountColumns)
                  IN  IF \A j \in 1..Len(Alerts(i)) :
                             Alerts(i)[j].severity \in {"critical", "high"}
                      THEN sum = Len(Alerts(i))
                      ELSE sum <= Len(Alerts(i))

\* the row of two critical or high alerts, one of them high, after an archived
\* repository
C2_Witness ==
    /\ repo_short_overview # <<>>
    /\ \E i \in ActiveRepos :
          /\ i > 1 /\ Repo(1).archived
          /\ Len(Alerts(i)) = 2
          /\ AlertsOfSeverity(i, {"critical", "high"}) = {1, 2}
          /\ AlertsOfSeverity(i, {"high"}) # {}
          /\ \E r \in RowsOf(repo_short_overview, redu_repo_data[i][1]) :
                SumFields(repo_short_overview, r, ShortCountColumns) = 2

(***************************************************************************)
(* C5: create_repo_alerts_vs_org emits one data row per repository key,    *)
(* archived or not, in key order; repo_dep_alerts is the number of the     *)
(* repository's alerts and org_dep_alerts the number of alerts grouped     *)
(* under its key in the org-alert mapping, 0 when the key is absent.       *)
(***************************************************************************)
OrgGroups(repo_key) == {g \in 1..Len(redu_org_alert) : redu_org_alert[g][1] = repo_key}

C5_CompareRows ==
    alerts_vs_org # <<>> =>
        /\ NumRows(alerts_vs_org) = Len(redu_repo_data)
        /\ \A i \in 1..Len(redu_repo_data) :
              /\ Field(alerts_vs_org, i, "full_name") = redu_repo_data[i][1]
              /\ Field(alerts_vs_org, i, "archived") = Repo(i).archived
              /\ Field(alerts_vs_org, i, "repo_dep_alerts") = Len(Alerts(i))
              /\ Field(alerts_vs_org, i, "org_dep_alerts")
                   = IF OrgGroups(redu_repo_data[i][1]) = {} THEN 0
                     ELSE Len(redu_org_alert[
                              CHOOSE g \in OrgGroups(redu_repo_data[i][1]) : TRUE][2])

\* the row of an archived repository that has alerts of its own and none in
\* the org-alert mapping, before the row of a repository with org alerts
C5_Witness ==
    /\ alerts_vs_org # <<>>
    /\ Len(redu_repo_data) = 2
    /\ Repo(1).archived
    /\ Field(alerts_vs_org, 1, "repo_dep_alerts") > 0
    /\ ~DictHas(redu_org_alert, redu_repo_data[1][1])
    /\ Field(alerts_vs_org, 1, "org_dep_alerts") = 0
    /\ Field(alerts_vs_org, 2, "org_dep_alerts") = 2
    /\ Len(redu_org_alert) = 1

(***************************************************************************)
(* C6: get_reduced_org_alerts keeps every alert of the feed once per       *)
(* occurrence: the keys are the repositories of the feed in first-seen     *)
(* order, each group holds the alerts of its repository in feed order,     *)
(* repeated alert numbers included, and the groups hold as many alerts as  *)
(* the feed.                                                               *)
(***************************************************************************)
FeedName(k) == gh_org_alerts[k].repository.full_name

\* the positions of the feed at which a repository is seen first
FirstSeen == {k \in 1..Len(gh_org_alerts) : \A h \in 1..(k - 1) : FeedName(h) # FeedName(k)}

\* the positions of the feed that hold an alert of the repository
FeedOf(name) == {k \in 1..Len(gh_org_alerts) : FeedName(k) = name}

RECURSIVE SumGroups(_)
SumGroups(g) == IF g = 0 THEN 0 ELSE Len(redu_org_alert[g][2]) + SumGroups(g - 1)

C6_GroupingKeepsFeed ==
    pc # "start" =>
        /\ Len(redu_org_alert) = Cardinality(FirstSeen)
        /\ \A g \in 1..Len(redu_org_alert) :
              LET name  == redu_org_alert[g][1]
                  group == redu_org_alert[g][2]
              IN  \* the g-th key is the g-th repository seen
                  /\ \E k \in FirstSeen :
                        /\ FeedName(k) = name
                        /\ Cardinality({h \in FirstSeen : h <= k}) = g
                  \* the group is the feed restricted to the repository
                  /\ Len(group) = Cardinality(FeedOf(name))
                  /\ \A k \in FeedOf(name) :
                        LET a == group[Cardinality({h \in FeedOf(name) : h <= k})]
                        IN  /\ a.number = gh_org_alerts[k].number
                            /\ a.state = gh_org_alerts[k].state
                            /\ a.severity
                                 = gh_org_alerts[k].security_vulnerability.severity
        /\ SumGroups(Len(redu_org_alert)) = Len(gh_org_alerts)

\* a feed in which an alert number of one repository comes twice, an alert
\* of another repository in between
C6_Witness ==
    /\ pc # "start"
    /\ Len(gh_org_alerts) = 3
    /\ FeedName(1) = FeedName(3) /\ FeedName(1) # FeedName(2)
    /\ FeedName(1) > FeedName(2)
    /\ gh_org_alerts[1].number = gh_org_alerts[3].number
    /\ Len(redu_org_alert) = 2
    /\ Len(redu_org_alert[1][2]) = 2

(***************************************************************************)
(* The calls of get_max_and_avg_time made for the rows of the full         *)
(* overview: the argument of the call for a repository and a severity.     *)
(***************************************************************************)
TimeList(i, severity) == DaysOpenList(redu_repo_data, i, utcnow, severity)

StatColumns(severity) ==
    IF severity = "critical" THEN [max |-> "open_cri_max", avg |-> "open_cri_avg"]
    ELSE [max |-> "open_hig_max", avg |-> "open_hig_avg"]

(***************************************************************************)
(* C7: for a non-empty collection of day-counts get_max_and_avg_time       *)
(* returns the largest element as max and the sum divided by the number of *)
(* elements as avg.                                                        *)
(* The code starts the maximum at 0 (line 551): a collection of negative   *)
(* day-counts gets max = 0.                                                *)
(***************************************************************************)
C7_MaxAndAvg ==
    repo_overview # <<>> =>
        \A i \in ActiveRepos, severity \in {"critical", "high"} :
            \A r \in RowsOf(repo_overview, redu_repo_data[i][1]) :
                LET time_list == TimeList(i, severity)
                IN  time_list # <<>> =>
                       /\ Field(repo_overview, r, StatColumns(severity).max)
                            = Largest(time_list)
                       /\ Field(repo_overview, r, StatColumns(severity).avg)
                            = Quotient(Sum(time_list), Len(time_list))

(***************************************************************************)
(* C8: on an empty collection get_max_and_avg_time returns max = 0 and     *)
(* avg = 0; the row of a repository without critical (high) alerts has     *)
(* open_cri_max = open_cri_avg = 0 (open_hig_max = open_hig_avg = 0).      *)
(***************************************************************************)
C8_EmptyIsZero ==
    /\ get_max_and_avg_time(<<>>) = [max |-> 0, avg |-> Zero]
    /\ repo_overview # <<>> =>
          \A i \in ActiveRepos, severity \in {"critical", "high"} :
              \A r \in RowsOf(repo_overview, redu_repo_data[i][1]) :
                  AlertsOfSeverity(i, {severity}) = {} =>
                     /\ Field(repo_overview, r, StatColumns(severity).max) = 0
                     /\ Field(repo_overview, r, StatColumns(severity).avg) = Zero

\* the row of a repository that has high and medium alerts and no critical one
C8_Witness ==
    /\ repo_overview # <<>>
    /\ \E i \in ActiveRepos :
          /\ AlertsOfSeverity(i, {"critical"}) = {}
          /\ AlertsOfSeverity(i, {"high"}) # {}
          /\ AlertsOfSeverity(i, {"medium"}) # {}
          /\ \E r \in RowsOf(repo_overview, redu_repo_data[i][1]) :
                /\ Field(repo_overview, r, "open_cri_max") = 0
                /\ Field(repo_overview, r, "open_cri_avg") = Zero
                /\ Field(repo_overview, r, "open_hig_max") > 0

(***************************************************************************)
(* C9: the short overview, the full overview, the language listing and the *)
(* language summary emit no row for and take no count from an archived     *)
(* repository; the short and the full overview have as many data rows as   *)
(* there are non-archived repositories.                                    *)
(***************************************************************************)
ActiveKeys == {redu_repo_data[i][1] : i \in ActiveRepos}

\* the non-archived repositories whose languages include the language
ActiveWith(language) ==
    {i \in ActiveRepos :
        \E l \in 1..Len(Repo(i).languages) : Repo(i).languages[l] = language}

C9_ArchivedSkipped ==
    /\ repo_overview # <<>> =>
          /\ NumRows(repo_overview) = Cardinality(ActiveRepos)
          /\ \A r \in 1..NumRows(repo_overview) :
                Field(repo_overview, r, "full_name") \in ActiveKeys
    /\ repo_short_overview # <<>> =>
          /\ NumRows(repo_short_overview) = Cardinality(ActiveRepos)
          /\ \A r \in 1..NumRows(repo_short_overview) :
                Field(repo_short_overview, r, "repo") \in ActiveKeys
    /\ languages_overview # <<>> =>
          \A r \in 1..NumRows(languages_overview) :
              /\ Field(languages_overview, r, "full_name") \in ActiveKeys
              /\ ActiveWith(Field(languages_overview, r, "language")) # {}
    /\ languages_summary # <<>> =>
          \A r \in 1..NumRows(languages_summary) :
              /\ ActiveWith(Field(languages_summary, r, "language")) # {}
              /\ Field(languages_summary, r, "repo_count")
                   = Cardinality(ActiveWith(Field(languages_summary, r, "language")))

\* all sheets written for an archived repository that has a language and an
\* alert, and an active repository that has another language
C9_Witness ==
    /\ pc = "LanguageSummary"
    /\ \E i, h \in 1..Len(redu_repo_data) :
          /\ Repo(i).archived /\ ~Repo(h).archived /\ i < h
          /\ Repo(i).languages # <<>> /\ Len(Repo(h).languages) = 1
          /\ Repo(i).languages[1] # Repo(h).languages[1]
          /\ Len(Alerts(i)) = 1
    /\ NumRows(repo_overview) = 1
    /\ NumRows(repo_short_overview) = 1
    /\ NumRows(languages_overview) = 1
    /\ NumRows(languages_summary) = 1

(***************************************************************************)
(* C10: in the full overview the day-count of an alert is the whole-day    *)
(* difference updated_at - created_at, the current time taking the place   *)
(* of updated_at for an alert in state "open"; open_cri_max/avg and         *)
(* open_hig_max/avg are the maximum and the average of the day-counts of   *)
(* the repository's critical and high alerts, whatever their state.        *)
(* This fails with C7: the maximum of negative day-counts is reported as 0.*)
(***************************************************************************)
\* the whole days in a number of hours
WholeDays(hours) ==
    CHOOSE d \in -(MaxDay + 1)..(MaxDay + 1) :
        d * HoursPerDay <= hours /\ hours < (d + 1) * HoursPerDay

\* the day-count of alert j of repository i
DayCount(i, j) ==
    LET alert == Alerts(i)[j]
    IN  IF alert.state = "open"
        THEN WholeDays(utcnow[ReadNo(redu_repo_data, i, j)] - strptime(alert.created_at))
        ELSE WholeDays(strptime(alert.updated_at) - strptime(alert.created_at))

RECURSIVE SumDayCounts(_, _)
SumDayCounts(i, J) ==
    IF J = {} THEN 0
    ELSE LET j == CHOOSE x \in J : TRUE IN DayCount(i, j) + SumDayCounts(i, J \ {j})

C10_DaysOpenStatistics ==
    repo_overview # <<>> =>
        \A i \in ActiveRepos, severity \in {"critical", "high"} :
            \A r \in RowsOf(repo_overview, redu_repo_data[i][1]) :
                LET J == AlertsOfSeverity(i, {severity})
                IN  J # {} =>
                       /\ \E j \in J :
                             /\ Field(repo_overview, r, StatColumns(severity).max)
                                  = DayCount(i, j)
                             /\ \A h \in J : DayCount(i, h) <= DayCount(i, j)
                       /\ Field(repo_overview, r, StatColumns(severity).avg)
                            = Quotient(SumDayCounts(i, J), Cardinality(J))

(***************************************************************************)
(* C11: get_reduced_alert fails when a required field path of the raw      *)
(* alert is absent, and the failure propagates out of                      *)
(* get_reduced_org_alerts and get_reduced_repo_data: a normalized          *)
(* collection is returned only when every alert that was reduced had all   *)
(* its required paths, and every reduced alert in it has all its fields.   *)
(***************************************************************************)
ReducedAlertFields ==
    {"number", "state", "created_at", "updated_at", "package", "ecosystem",
     "scope", "ghsa_id", "severity", "repository_url", "repository_full_name"}

LacksPath(alert) == \E path \in RequiredPaths(alert) : ~HasPath(alert, path)

\* the raw alerts get_reduced_repo_data hands to get_reduced_alert
RawAlertsOfEnabled ==
    UNION {{gh_repo_data[i][2].dependabot_alerts[j] :
               j \in 1..Len(gh_repo_data[i][2].dependabot_alerts)} :
           i \in {h \in 1..Len(gh_repo_data) : gh_repo_data[h][2].dependabot_enabled}}

FeedAlerts == {gh_org_alerts[k] : k \in 1..Len(gh_org_alerts)}

C11_MissingFieldRaises ==
    /\ \A alert \in FeedAlerts \cup RawAlertsOfEnabled :
          LacksPath(alert) <=> Raised(get_reduced_alert(alert))
    /\ pc \notin {"start", "KeyError"} =>
          /\ \A alert \in FeedAlerts :
                ~LacksPath(alert) /\ HasPath(alert, <<"repository", "full_name">>)
          /\ \A g \in 1..Len(redu_org_alert) :
                \A k \in 1..Len(redu_org_alert[g][2]) :
                    DOMAIN redu_org_alert[g][2][k] = ReducedAlertFields
    /\ pc \notin {"start", "org_alerts_reduced", "KeyError"} =>
          /\ \A alert \in RawAlertsOfEnabled : ~LacksPath(alert)
          /\ \A i \in 1..Len(redu_repo_data) :
                \A j \in 1..Len(Alerts(i)) :
                    DOMAIN Alerts(i)[j] = ReducedAlertFields
    /\ pc = "KeyError" =>
          /\ redu_repo_data = <<>>
          /\ overview = <<>>
          /\ \/ redu_org_alert = <<>>
             \/ \E alert \in RawAlertsOfEnabled : LacksPath(alert)

\* the feed was reduced and get_reduced_repo_data failed on the second alert
\* of the repository, which has no dependency.scope
C11_Witness ==
    /\ pc = "KeyError"
    /\ redu_org_alert # <<>>
    /\ redu_repo_data = <<>>
    /\ Len(gh_repo_data) = 1
    /\ Len(gh_repo_data[1][2].dependabot_alerts) = 2
    /\ ~LacksPath(gh_repo_data[1][2].dependabot_alerts[1])
    /\ ~HasPath(gh_repo_data[1][2].dependabot_alerts[2], <<"dependency", "scope">>)
    /\ HasPath(gh_repo_data[1][2].dependabot_alerts[2], <<"dependency", "package">>)

(***************************************************************************)
(* C12: a repository reduced by get_reduced_repo_data with                 *)
(* dependabot_enabled false has no alerts, also when its raw record        *)
(* carries alerts; with dependabot_enabled true its alerts are the raw     *)
(* alerts, reduced one to one, in order.                                   *)
(***************************************************************************)
RepoDataReturned == pc \notin {"start", "org_alerts_reduced", "KeyError"}

\* the reduced alert carries the fields of the raw alert
ReducedFrom(alert_rec, alert) ==
    /\ alert_rec.number = alert.number
    /\ alert_rec.state = alert.state
    /\ alert_rec.created_at = alert.created_at
    /\ alert_rec.updated_at = alert.updated_at
    /\ alert_rec.package = alert.dependency.package.name
    /\ alert_rec.ecosystem = alert.dependency.package.ecosystem
    /\ alert_rec.scope = alert.dependency.scope
    /\ alert_rec.ghsa_id = alert.security_advisory.ghsa_id
    /\ alert_rec.severity = alert.security_vulnerability.severity

C12_DisabledHasNoAlerts ==
    RepoDataReturned =>
        /\ Len(redu_repo_data) = Len(gh_repo_data)
        /\ \A i \in 1..Len(redu_repo_data) :
              LET raw == gh_repo_data[i][2]
              IN  /\ redu_repo_data[i][1] = gh_repo_data[i][1]
                  /\ Repo(i).dependabot_enabled = raw.dependabot_enabled
                  /\ ~raw.dependabot_enabled => Alerts(i) = <<>>
                  /\ raw.dependabot_enabled =>
                        /\ Len(Alerts(i)) = Len(raw.dependabot_alerts)
                        /\ \A j \in 1..Len(Alerts(i)) :
                              ReducedFrom(Alerts(i)[j], raw.dependabot_alerts[j])

\* a repository without dependabot whose raw record carries an alert, next
\* to one with dependabot and an open alert
C12_Witness ==
    /\ pc = "repo_data_reduced"
    /\ \E i, h \in 1..Len(redu_repo_data) :
          /\ ~Repo(i).dependabot_enabled
          /\ gh_repo_data[i][2].dependabot_alerts # <<>>
          /\ Alerts(i) = <<>>
          /\ Repo(h).dependabot_enabled
          /\ Len(Alerts(h)) = 1
          /\ Alerts(h)[1].state = "open"

(***************************************************************************)
(* C13: every reduced alert has repository_full_name populated.  In the    *)
(* reduced organization feed it is the repository.full_name embedded in    *)
(* the raw alert and the key of the group holding the alert; in the        *)
(* reduced repositories it is the key of the repository holding the alert. *)
(***************************************************************************)
C13_FullNamePopulated ==
    /\ pc \notin {"start", "KeyError"} =>
          \A g \in 1..Len(redu_org_alert) :
              \A k \in 1..Len(redu_org_alert[g][2]) :
                  LET alert_rec == redu_org_alert[g][2][k]
                  IN  /\ "repository_full_name" \in DOMAIN alert_rec
                      /\ alert_rec.repository_full_name = redu_org_alert[g][1]
                      /\ \E pos \in 1..Len(gh_org_alerts) :
                            /\ gh_org_alerts[pos].number = alert_rec.number
                            /\ FeedName(pos) = alert_rec.repository_full_name
    /\ RepoDataReturned =>
          \A i \in 1..Len(redu_repo_data) :
              \A j \in 1..Len(Alerts(i)) :
                  /\ "repository_full_name" \in DOMAIN Alerts(i)[j]
                  /\ Alerts(i)[j].repository_full_name = redu_repo_data[i][1]

\* two groups of the feed and two repositories holding an alert each
C13_Witness ==
    /\ pc = "repo_data_reduced"
    /\ Len(redu_org_alert) = 2
    /\ redu_org_alert[1][2][1].repository_full_name
         # redu_org_alert[2][2][1].repository_full_name
    /\ Len(redu_repo_data) = 2
    /\ Len(Alerts(1)) = 1 /\ Len(Alerts(2)) = 1
    /\ Alerts(1)[1].repository_full_name = 2
    /\ Alerts(2)[1].repository_full_name = 1

(***************************************************************************)
(* C14: create_gh_languages_summary emits one row per language that occurs *)
(* in a non-archived repository; its repo_count is the number of           *)
(* non-archived repositories whose languages contain it; the rows are in   *)
(* the order in which the languages are first met going through the        *)
(* repositories in collection order; the repo_count values add up to the   *)
(* number of data rows of create_gh_languages_overview.                    *)
(***************************************************************************)
\* the languages of the non-archived repositories from repository i on
RECURSIVE Encountered(_)
Encountered(i) ==
    IF i > Len(redu_repo_data) THEN <<>>
    ELSE (IF Repo(i).archived THEN <<>> ELSE Repo(i).languages) \o Encountered(i + 1)

FirstMet(language) ==
    CHOOSE e \in 1..Len(Encountered(1)) :
        /\ Encountered(1)[e] = language
        /\ \A d \in 1..(e - 1) : Encountered(1)[d] # language

RECURSIVE SumRepoCount(_)
SumRepoCount(r) ==
    IF r = 0 THEN 0
    ELSE Field(languages_summary, r, "repo_count") + SumRepoCount(r - 1)

C14_LanguageSummary ==
    languages_summary # <<>> =>
        LET met == {Encountered(1)[e] : e \in 1..Len(Encountered(1))}
        IN  /\ NumRows(languages_summary) = Cardinality(met)
            /\ \A r \in 1..NumRows(languages_summary) :
                  LET language == Field(languages_summary, r, "language")
                  IN  /\ language \in met
                      /\ Field(languages_summary, r, "repo_count")
                           = Cardinality(ActiveWith(language))
                      /\ \A q \in 1..(r - 1) :
                            FirstMet(Field(languages_summary, q, "language"))
                              < FirstMet(language)
            /\ SumRepoCount(NumRows(languages_summary)) = NumRows(languages_overview)

\* "Py" is met before "Go" and occurs in both repositories
C14_Witness ==
    /\ languages_summary = << <<"language", "repo_count">>, <<"Py", 2>>, <<"Go", 1>> >>
    /\ NumRows(languages_overview) = 3
    /\ Len(redu_repo_data) = 2
    /\ Repo(1).languages = <<"Py">>
    /\ Repo(2).languages = <<"Go", "Py">>

(***************************************************************************)
(* C15: in the short and in the full overview an alert whose state is      *)
(* neither "open" nor "fixed" is counted in the dismissed column of its    *)
(* severity: for each counted severity the open, fixed and dismissed       *)
(* columns hold the alerts in state "open", in state "fixed" and in any    *)
(* other state, and a row is written whatever the states are.              *)
(***************************************************************************)
StateColumns ==
    [ critical |-> [open |-> "dep_cri_open", fixed |-> "dep_cri_fixed",
                    dismissed |-> "dep_cri_dismissed"],
      high     |-> [open |-> "dep_hig_open", fixed |-> "dep_hig_fixed",
                    dismissed |-> "dep_hig_dismissed"],
      medium   |-> [open |-> "dep_med_open", fixed |-> "dep_med_fixed",
                    dismissed |-> "dep_med_dismissed"],
      low      |-> [open |-> "dep_low_open", fixed |-> "dep_low_fixed",
                    dismissed |-> "dep_low_dismissed"] ]

AlertsInState(i, severity, StateSet) ==
    {j \in AlertsOfSeverity(i, {severity}) : Alerts(i)[j].state \in StateSet}

\* the three state columns of a severity in the row of repository i
StateBucketsRight(table, i, r, severity) ==
    /\ Field(table, r, StateColumns[severity].open)
         = Cardinality(AlertsInState(i, severity, {"open"}))
    /\ Field(table, r, StateColumns[severity].fixed)
         = Cardinality(AlertsInState(i, severity, {"fixed"}))
    /\ Field(table, r, StateColumns[severity].dismissed)
         = Cardinality(AlertsInState(i, severity, States \ {"open", "fixed"}))

C15_OtherStatesAreDismissed ==
    /\ repo_short_overview # <<>> =>
          \A i \in ActiveRepos :
              /\ RowsOf(repo_short_overview, redu_repo_data[i][1]) # {}
              /\ \A r \in RowsOf(repo_short_overview, redu_repo_data[i][1]) :
                    \A severity \in {"critical", "high"} :
                        StateBucketsRight(repo_short_overview, i, r, severity)
    /\ repo_overview # <<>> =>
          \A i \in ActiveRepos :
              /\ RowsOf(repo_overview, redu_repo_data[i][1]) # {}
              /\ \A r \in RowsOf(repo_overview, redu_repo_data[i][1]) :
                    \A severity \in {"critical", "high", "medium", "low"} :
                        StateBucketsRight(repo_overview, i, r, severity)

\* a critical alert in state "auto_dismissed" and one in state "dismissed"
\* counted in dep_cri_dismissed of both overviews
C15_Witness ==
    /\ repo_short_overview # <<>>
    /\ \E i \in ActiveRepos :
          /\ AlertsInState(i, "critical", {"auto_dismissed"}) # {}
          /\ AlertsInState(i, "critical", {"dismissed"}) # {}
          /\ \E r \in RowsOf(repo_short_overview, redu_repo_data[i][1]) :
                Field(repo_short_overview, r, "dep_cri_dismissed") = 2
          /\ \E r \in RowsOf(repo_overview, redu_repo_data[i][1]) :
                Field(repo_overview, r, "dep_cri_dismissed") = 2

(***************************************************************************)
(* C16: on the same collection the short overview agrees with the full     *)
(* overview: the same repositories in the same order, and in each row the  *)
(* same private and dependabot values and the same six critical and high   *)
(* counts.                                                                 *)
(***************************************************************************)
C16_ShortAgreesWithFull ==
    repo_short_overview # <<>> =>
        /\ NumRows(repo_short_overview) = NumRows(repo_overview)
        /\ \A r \in 1..NumRows(repo_short_overview) :
              /\ Field(repo_short_overview, r, "repo")
                   = Field(repo_overview, r, "full_name")
              /\ Field(repo_short_overview, r, "private")
                   = Field(repo_overview, r, "private")
              /\ Field(repo_short_overview, r, "dependabot")
                   = Field(repo_overview, r, "dependabot")
              /\ \A c \in 1..Len(ShortCountColumns) :
                    Field(repo_short_overview, r, ShortCountColumns[c])
                      = Field(repo_overview, r, ShortCountColumns[c])

\* two rows in each overview, the second with a fixed high alert and a
\* medium alert that only the full overview counts
C16_Witness ==
    /\ NumRows(repo_short_overview) = 2
    /\ NumRows(repo_overview) = 2
    /\ Field(repo_short_overview, 1, "private") # Field(repo_short_overview, 2, "private")
    /\ Field(repo_short_overview, 2, "dep_hig_fixed") = 1
    /\ Field(repo_overview, 2, "dep_hig_fixed") = 1
    /\ SumFields(repo_short_overview, 2, ShortCountColumns) = 1
    /\ SumFields(repo_overview, 2, FullCountColumns) = 2

(***************************************************************************)
(* C17: on a collection produced by get_reduced_repo_data the overview     *)
(* counters are ordered: repos with open dependabot alerts <= repos with   *)
(* dependabot alerts <= enabled dependabot <= active.                      *)
(***************************************************************************)
C17_CountersOrdered ==
    overview # <<>> =>
        /\ OverviewValue("number of repos with open dependabot alerts")
             <= OverviewValue("number of repos with dependabot alerts")
        /\ OverviewValue("number of repos with dependabot alerts")
             <= OverviewValue("number of enabled dependabot")
        /\ OverviewValue("number of enabled dependabot")
             <= OverviewValue("number of active")

\* an active repository without dependabot whose raw record carries an open
\* alert, next to an active one with dependabot and a fixed alert
C17_Witness ==
    /\ overview # <<>>
    /\ \E i, h \in ActiveRepos :
          /\ ~Repo(i).dependabot_enabled
          /\ gh_repo_data[i][2].dependabot_alerts # <<>>
          /\ gh_repo_data[i][2].dependabot_alerts[1].state = "open"
          /\ Repo(h).dependabot_enabled
          /\ Len(Alerts(h)) = 1
          /\ Alerts(h)[1].state = "fixed"
    /\ OverviewValue("number of repos with open dependabot alerts") = 0
    /\ OverviewValue("number of repos with dependabot alerts") = 1
    /\ OverviewValue("number of enabled dependabot") = 1
    /\ OverviewValue("number of active") = 2

(***************************************************************************)
(* C18: request_pagination follows the 'next' links page by page and ends  *)
(* when a response with status 200 has no 'next' link, returning the       *)
(* pages concatenated in the order they were fetched; at the first         *)
(* response with another status it stops and returns what it has           *)
(* accumulated, without raising: it ends in the same way, with a list and  *)
(* nothing else, whether the result is complete or cut short.              *)
(***************************************************************************)
\* the page the r-th request addresses when the 'next' links are followed
RECURSIVE Visited(_)
Visited(r) == IF r = 1 THEN 1 ELSE server.next[Visited(r - 1)]

\* the bodies of the first m pages visited, concatenated
RECURSIVE ConcatVisited(_)
ConcatVisited(m) ==
    IF m = 0 THEN <<>> ELSE ConcatVisited(m - 1) \o server.bodies[Visited(m)]

Refused == server.fail_at \in 1..num_requests

C18_Followed ==
    /\ fetch_pc \in {"idle", "while", "response", "returned"}
    /\ fetch_pc = "while" =>
          /\ ~Refused
          /\ results = ConcatVisited(num_requests)
          /\ url = IF num_requests = 0 THEN PageUrl(1)
                   ELSE IF server.next[Visited(num_requests)] = 0 THEN None
                   ELSE PageUrl(server.next[Visited(num_requests)])
    /\ fetch_pc = "returned" =>
          IF Refused
          THEN /\ server.fail_at = num_requests
               /\ response.status_code # 200
               /\ results = ConcatVisited(num_requests - 1)
          ELSE /\ response.status_code = 200
               /\ server.next[Visited(num_requests)] = 0
               /\ results = ConcatVisited(num_requests)

C18_Pagination ==
    /\ []C18_Followed
    /\ (fetch_pc = "response" /\ response.status_code = 200
          /\ "next" \notin DOMAIN response.links) ~> (fetch_pc = "returned")
    /\ (fetch_pc = "response" /\ response.status_code # 200)
          ~> (fetch_pc = "returned")

\* the first page was fetched, its 'next' link followed, and the second
\* request refused: the first page alone is returned
C18_Witness ==
    /\ fetch_pc = "returned"
    /\ num_requests = 2
    /\ server.fail_at = 2
    /\ server.next[1] = 2
    /\ server.bodies[1] # <<>>
    /\ server.bodies[2] # <<>>
    /\ results = server.bodies[1]
    /\ response.status_code = 403

====
